---- MODULE Spec2Model ----
(***************************************************************************)
(* Model of the multi-city equilibrium solver (src/src/solvers.py), of the *)
(* result reporting of src/src/sandbox.py and of the goods-market          *)
(* equations of src/src/model.py.                                          *)
(*                                                                         *)
(* Python indices are 0-based; sequences here are 1-based, so city h of    *)
(* the source is entry h+1.  A numeric array entry is a pair <<tag, n>>:   *)
(* <<"num", 1>> is the float 1.0, <<"x", i>> the i-th entry of a vector a  *)
(* caller passes in, <<"gdp", p>>, <<"wage", p>>, <<"firms", p>> the       *)
(* single-city closed-form values computed for a population p.             *)
(***************************************************************************)
EXTENDS Integers, Sequences, FiniteSets, TLC

\* Bounds of the model.
MaxN == 3
MaxIter == 2
MaxClears == 1

VARIABLES
    N,                 \* self.model.N
    theta,             \* self.model.params['theta'], one entry per city
    population,        \* self.model.population
    rootIters,         \* residual evaluations optimize.root needs on this model
    rootConverges,     \* whether optimize.root's iteration converges on this model
    solvers,           \* the Solver objects a program creates over the model
    constructed,       \* constructed[s]: Solver.__init__ has run for s
    numeric_system,    \* Solver.__numeric_system of each solver
    numeric_jacobian,  \* Solver.__numeric_jacobian of each solver
    city,              \* IslandsGuess.__city of each solver's initial_guess
    sysBuilds,         \* history: lambdify calls made for the residual function
    jacBuilds,         \* history: lambdify calls made for the Jacobian function
    clears,            \* history: _clear_cache calls
    calls,             \* compiled-function calls made by the last operation
    root,              \* the optimize.root call in progress inside solve()
    result,            \* what the last solve() gave its caller
    report,            \* what the reporting code printed last
    num_cities,        \* model.num_cities
    price_level,       \* P
    nominal_gdp,       \* Y
    nominal_wage,      \* W
    number_firms,      \* M
    elasticity_substitution, \* theta of model.py
    economic_distance, \* delta
    phi,
    goods_residual     \* goods_market_clearing(h) for the cities evaluated so far

solverVars == <<N, theta, population, rootIters, rootConverges, solvers,
                constructed, numeric_system, numeric_jacobian, city,
                sysBuilds, jacBuilds, clears, calls, root, result, report>>
goodsVars == <<num_cities, price_level, nominal_gdp, nominal_wage, number_firms,
               elasticity_substitution, economic_distance, phi, goods_residual>>
vars == <<solverVars, goodsVars>>

----------------------------------------------------------------------------
(* numpy helpers *)

Min(a, b) == IF a < b THEN a ELSE b

\* X[a:b] for 0 <= a, 0 <= b: out-of-range bounds are clamped, never an error.
Slice(X, a, b) == SubSeq(X, a + 1, Min(b, Len(X)))

\* X[a:]
SliceFrom(X, a) == SubSeq(X, a + 1, Len(X))

\* np.ones(1.0): the one-entry array [1.0] (a float shape is accepted by the
\* numpy the code was written for).
One == <<"num", 1>>
Ones1 == <<One>>

\* np.repeat(v, n)
Repeat(v, n) == [i \in 1..n |-> v]

\* A vector a caller passes in: entry i is <<"x", i>>.
XVec(len) == [i \in 1..len |-> <<"x", i>>]

None == "None"
Compiled == "fn"

----------------------------------------------------------------------------
(* IslandsGuess *)

NoCity == [built |-> FALSE, population |-> <<>>]

\* IslandsGuess.city: the SingleCityModel is created on first use and kept.
CityOf(s) ==
    IF city[s].built THEN city[s]
    ELSE [built |-> TRUE, population |-> population]

compute_nominal_gdp(pop) == <<"gdp", pop>>
compute_nominal_wage(pop) == <<"wage", pop>>
compute_number_firms(pop) == <<"firms", pop>>

P0(n) == Repeat(One, n - 1)
Y0(c, n) == [h \in 1..n |-> compute_nominal_gdp(Slice(c.population, 0, n)[h])]
W0(c, n) == [h \in 1..n |-> compute_nominal_wage(Slice(c.population, 0, n)[h])]
M0(c, n) == [h \in 1..n |-> compute_number_firms(Slice(c.population, 0, n)[h])]

\* A slip in the price block: one entry per city, numeraire included.
GuessFullPriceBlock(c, n) == Repeat(One, n) \o Y0(c, n) \o W0(c, n) \o M0(c, n)

\* IslandsGuess.guess: np.hstack((P0, Y0, W0, M0)).
Guess(c, n) == P0(n) \o Y0(c, n) \o W0(c, n) \o M0(c, n)

----------------------------------------------------------------------------
(* Solver.system, Solver.jacobian *)

\* A slip: the numeraire is not prepended, P is read from X like the other blocks.
UnpackNoNumeraire(X, n) ==
    [P |-> Slice(X, 0, n),
     Y |-> Slice(X, n - 1, 2 * n - 1),
     W |-> Slice(X, 2 * n - 1, 3 * n - 1),
     M |-> SliceFrom(X, 3 * n - 1)]

\* A slip: the W block starts one entry late.
UnpackShiftedW(X, n) ==
    [P |-> Ones1 \o Slice(X, 0, n - 1),
     Y |-> Slice(X, n - 1, 2 * n - 1),
     W |-> Slice(X, 2 * n, 3 * n - 1),
     M |-> SliceFrom(X, 3 * n - 1)]

\* A slip: the M block starts one entry late.
UnpackLateM(X, n) ==
    [P |-> Ones1 \o Slice(X, 0, n - 1),
     Y |-> Slice(X, n - 1, 2 * n - 1),
     W |-> Slice(X, 2 * n - 1, 3 * n - 1),
     M |-> SliceFrom(X, 3 * n)]

\* The unpacking at the head of Solver.system.
SystemUnpack(X, n) ==
    [P |-> Ones1 \o Slice(X, 0, n - 1),
     Y |-> Slice(X, n - 1, 2 * n - 1),
     W |-> Slice(X, 2 * n - 1, 3 * n - 1),
     M |-> SliceFrom(X, 3 * n - 1)]

\* The unpacking at the head of Solver.jacobian.
JacobianUnpack(X, n) ==
    [P |-> Ones1 \o Slice(X, 0, n - 1),
     Y |-> Slice(X, n - 1, 2 * n - 1),
     W |-> Slice(X, 2 * n - 1, 3 * n - 1),
     M |-> SliceFrom(X, 3 * n - 1)]

\* The compiled function indexes P[h], Y[h], W[h], M[h] for every city h < N:
\* a block with fewer than N entries raises IndexError, extra entries are
\* never read.
CompiledErr(b, n) ==
    IF Len(b.P) < n \/ Len(b.Y) < n \/ Len(b.W) < n \/ Len(b.M) < n
    THEN "IndexError" ELSE "none"

\* One call self._numeric_system(P, Y, W, M, ...) or self._numeric_jacobian(...).
CallOf(fn, X, b) ==
    [fn |-> fn, X |-> X, P |-> b.P, Y |-> b.Y, W |-> b.W, M |-> b.M,
     err |-> CompiledErr(b, N)]

\* A slip: the cached function is never reused.
AlwaysCompile(cache) == TRUE

\* "if self.__numeric_system is None" / "if self.__numeric_jacobian is None"
NeedsCompile(cache) == cache = None

SystemCall(X) == CallOf("system", X, SystemUnpack(X, N))
JacobianCall(X) == CallOf("jacobian", X, JacobianUnpack(X, N))

\* The effect of reading the property Solver._numeric_system of solver s.
UseNumericSystem(s) ==
    /\ numeric_system' = [numeric_system EXCEPT ![s] = Compiled]
    /\ sysBuilds' = [sysBuilds EXCEPT
                        ![s] = IF NeedsCompile(numeric_system[s]) THEN @ + 1 ELSE @]

\* The effect of reading the property Solver._numeric_jacobian of solver s.
UseNumericJacobian(s) ==
    /\ numeric_jacobian' = [numeric_jacobian EXCEPT ![s] = Compiled]
    /\ jacBuilds' = [jacBuilds EXCEPT
                        ![s] = IF NeedsCompile(numeric_jacobian[s]) THEN @ + 1 ELSE @]

Idle == [pc |-> "idle", solver |-> 0, with_jacobian |-> FALSE, x0 |-> <<>>, k |-> 0]

NoResult == [status |-> "none", with_jacobian |-> FALSE, x |-> <<>>,
             success |-> FALSE, message |-> "", nfev |-> 0, njev |-> 0]

NoReport == [printed |-> FALSE, x |-> <<>>, converged |-> FALSE, prices |-> <<>>,
             gdp |-> <<>>, wages |-> <<>>, firms |-> <<>>]

\* Solver.__init__
Construct(s) ==
    /\ root.pc = "idle"
    /\ ~constructed[s]
    /\ constructed' = [constructed EXCEPT ![s] = TRUE]
    /\ UNCHANGED <<N, theta, population, rootIters, rootConverges, solvers,
                   numeric_system, numeric_jacobian, city, sysBuilds, jacBuilds,
                   clears, calls, root, result, report>>
    /\ UNCHANGED goodsVars

\* Solver._clear_cache; a program clears caches at most MaxClears times.
ClearCache(s) ==
    /\ root.pc = "idle"
    /\ constructed[s]
    /\ clears[1] + clears[2] < MaxClears
    /\ numeric_jacobian' = [numeric_jacobian EXCEPT ![s] = None]
    /\ numeric_system' = [numeric_system EXCEPT ![s] = None]
    /\ clears' = [clears EXCEPT ![s] = @ + 1]
    /\ UNCHANGED <<N, theta, population, rootIters, rootConverges, solvers,
                   constructed, city, sysBuilds, jacBuilds, calls, root, result,
                   report>>
    /\ UNCHANGED goodsVars

\* Solver.system(X), called from outside solve()
System(s, X) ==
    /\ root.pc = "idle"
    /\ constructed[s]
    /\ UseNumericSystem(s)
    /\ calls' = <<SystemCall(X)>>
    /\ UNCHANGED <<N, theta, population, rootIters, rootConverges, solvers,
                   constructed, numeric_jacobian, city, jacBuilds, clears, root,
                   result, report>>
    /\ UNCHANGED goodsVars

\* Solver.jacobian(X), called from outside solve()
Jacobian(s, X) ==
    /\ root.pc = "idle"
    /\ constructed[s]
    /\ UseNumericJacobian(s)
    /\ calls' = <<JacobianCall(X)>>
    /\ UNCHANGED <<N, theta, population, rootIters, rootConverges, solvers,
                   constructed, numeric_system, city, sysBuilds, clears, root,
                   result, report>>
    /\ UNCHANGED goodsVars

----------------------------------------------------------------------------
(* Solver.solve and the optimize.root call it makes *)

\* mark_up(j) divides by theta[j] - 1.
ThetaHasOne == \E j \in 1..Len(theta) : theta[j] = 1

\* The k-th iterate of the root-finder started at x0.
Iterate(x0, k) == [i \in 1..Len(x0) |-> <<x0[i][1], x0[i][2] + k>>]

\* The iteration converges only on finite residuals.
Converges == rootConverges /\ ~ThetaHasOne

\* A slip: the next solve starts where the last one ended.
SolveX0Warm(s) == IF result.status = "returned" THEN result.x ELSE Guess(CityOf(s), N)

\* x0=self.initial_guess.guess
SolveX0(s) == Guess(CityOf(s), N)

\* solve() up to the call of optimize.root
SolveStart(s, with_jacobian) ==
    /\ root.pc = "idle"
    /\ constructed[s]
    /\ city' = [city EXCEPT ![s] = CityOf(s)]
    /\ root' = [pc |-> "root", solver |-> s, with_jacobian |-> with_jacobian,
                x0 |-> SolveX0(s), k |-> 0]
    /\ calls' = <<>>
    /\ UNCHANGED <<N, theta, population, rootIters, rootConverges, solvers,
                   constructed, numeric_system, numeric_jacobian, sysBuilds,
                   jacBuilds, clears, result, report>>
    /\ UNCHANGED goodsVars

\* An exception of a callback leaves optimize.root and solve().
Raised(with_jacobian) ==
    [NoResult EXCEPT !.status = "raised", !.with_jacobian = with_jacobian]

\* One iteration of optimize.root: self.system(X), and self.jacobian(X) when
\* solve() was called with_jacobian.
RootIterate ==
    /\ root.pc = "root"
    /\ root.k < rootIters
    /\ LET s == root.solver
           X == Iterate(root.x0, root.k)
           sc == SystemCall(X)
           jc == JacobianCall(X)
       IN  /\ UseNumericSystem(s)
           /\ IF sc.err # "none"
              THEN /\ calls' = <<sc>>
                   /\ root' = Idle
                   /\ result' = Raised(root.with_jacobian)
                   /\ UNCHANGED <<numeric_jacobian, jacBuilds>>
              ELSE IF ~root.with_jacobian
              THEN /\ calls' = <<sc>>
                   /\ root' = [root EXCEPT !.k = @ + 1]
                   /\ UNCHANGED <<numeric_jacobian, jacBuilds, result>>
              ELSE /\ UseNumericJacobian(s)
                   /\ calls' = <<sc, jc>>
                   /\ IF jc.err # "none"
                      THEN root' = Idle /\ result' = Raised(root.with_jacobian)
                      ELSE root' = [root EXCEPT !.k = @ + 1] /\ UNCHANGED result
    /\ UNCHANGED <<N, theta, population, rootIters, rootConverges, solvers,
                   constructed, city, clears, report>>
    /\ UNCHANGED goodsVars

\* A slip: the result is reported as converged whatever the root-finder found.
ResultAlwaysSuccess(x0, k, with_jacobian) ==
    [status |-> "returned", with_jacobian |-> with_jacobian,
     x |-> Iterate(x0, k - 1), success |-> TRUE,
     message |-> "The solution converged.",
     nfev |-> k, njev |-> IF with_jacobian THEN k ELSE 0]

\* "return result": the OptimizeResult of optimize.root, unchanged.
SolveResult(x0, k, with_jacobian) ==
    [status |-> "returned", with_jacobian |-> with_jacobian,
     x |-> Iterate(x0, k - 1), success |-> Converges,
     message |-> IF Converges THEN "The solution converged."
                 ELSE "The iteration is not making good progress.",
     nfev |-> k, njev |-> IF with_jacobian THEN k ELSE 0]

\* optimize.root ends and solve() returns its result
SolveReturn ==
    /\ root.pc = "root"
    /\ root.k = rootIters
    /\ result' = SolveResult(root.x0, root.k, root.with_jacobian)
    /\ root' = Idle
    /\ UNCHANGED <<N, theta, population, rootIters, rootConverges, solvers,
                   constructed, numeric_system, numeric_jacobian, city, sysBuilds,
                   jacBuilds, clears, calls, report>>
    /\ UNCHANGED goodsVars

\* The slices the reporting code prints, in its order.
ReportOf(res, n) ==
    [printed |-> TRUE, x |-> res.x, converged |-> res.success,
     prices |-> Slice(res.x, 0, n - 1),
     gdp |-> Slice(res.x, n - 1, 2 * n - 1),
     wages |-> Slice(res.x, 2 * n - 1, 3 * n - 1),
     firms |-> SliceFrom(res.x, 3 * n - 1)]

\* The print statements that follow the solve
ReportResult ==
    /\ root.pc = "idle"
    /\ result.status = "returned"
    /\ report' = ReportOf(result, N)
    /\ UNCHANGED <<N, theta, population, rootIters, rootConverges, solvers,
                   constructed, numeric_system, numeric_jacobian, city, sysBuilds,
                   jacBuilds, clears, calls, root, result>>
    /\ UNCHANGED goodsVars

----------------------------------------------------------------------------
(* model.py: the goods-market equations, in exact rational arithmetic.      *)
(* A rational is a pair <<numerator, denominator>> in lowest terms with a   *)
(* positive denominator.                                                    *)

RECURSIVE GCD(_, _)
GCD(a, b) == IF b = 0 THEN a ELSE GCD(b, a % b)

Abs(a) == IF a < 0 THEN -a ELSE a

Rat(n, d) ==
    LET g == GCD(Abs(n), Abs(d))
        sg == IF d < 0 THEN -1 ELSE 1
    IN  <<sg * (n \div g), sg * (d \div g)>>

RInt(n) == <<n, 1>>
Zero == RInt(0)
RAdd(a, b) == Rat(a[1] * b[2] + b[1] * a[2], a[2] * b[2])
RSub(a, b) == Rat(a[1] * b[2] - b[1] * a[2], a[2] * b[2])
RMul(a, b) == Rat(a[1] * b[1], a[2] * b[2])
RDiv(a, b) == Rat(a[1] * b[2], a[2] * b[1])

\* a ** k for an integer k >= 0
RECURSIVE RPow(_, _)
RPow(a, k) == IF k = 0 THEN RInt(1) ELSE RMul(a, RPow(a, k - 1))

\* a ** (-k) for an integer k >= 0
RPowNeg(a, k) == RPow(RDiv(RInt(1), a), k)

\* sum(terms)
RECURSIVE RSum(_)
RSum(terms) == IF terms = <<>> THEN Zero ELSE RAdd(Head(terms), RSum(Tail(terms)))

labor_productivity(h, j) == RDiv(RInt(phi), RInt(economic_distance[h][j]))

marginal_costs(h, j) == RDiv(RInt(nominal_wage[h]), labor_productivity(h, j))

mark_up(j) ==
    RDiv(RInt(elasticity_substitution[j]), RInt(elasticity_substitution[j] - 1))

optimal_price(h, j) == RMul(mark_up(j), marginal_costs(h, j))

real_gdp(i) == RDiv(RInt(nominal_gdp[i]), RInt(price_level[i]))

relative_price(price, j) == RDiv(price, RInt(price_level[j]))

quantity_demand(price, j) ==
    RMul(RPowNeg(relative_price(price, j), elasticity_substitution[j]), real_gdp(j))

revenue(price, quantity) == RMul(price, quantity)

total_exports(h) ==
    RSum([j \in 1..num_cities |->
            LET p_star == optimal_price(h, j)
                q_star == quantity_demand(p_star, j)
            IN  RMul(RInt(number_firms[h]), revenue(p_star, q_star))])

\* A slip: the price of the imported good is taken at the exporter's indices
\* of total_exports, optimal_price(h, j) for optimal_price(j, h).
total_imports_swapped(h) ==
    RSum([j \in 1..num_cities |->
            LET p_star == optimal_price(h, j)
                q_star == quantity_demand(p_star, h)
            IN  RMul(RInt(number_firms[j]), revenue(p_star, q_star))])

total_imports(h) ==
    RSum([j \in 1..num_cities |->
            LET p_star == optimal_price(j, h)
                q_star == quantity_demand(p_star, h)
            IN  RMul(RInt(number_firms[j]), revenue(p_star, q_star))])

goods_market_clearing(h) == RSub(total_exports(h), total_imports(h))

\* The goods-market residual of the next city is evaluated.
EvalGoods ==
    /\ Len(goods_residual) < num_cities
    /\ goods_residual' = Append(goods_residual,
                                goods_market_clearing(Len(goods_residual) + 1))
    /\ UNCHANGED <<num_cities, price_level, nominal_gdp, nominal_wage, number_firms,
                   elasticity_substitution, economic_distance, phi>>
    /\ UNCHANGED solverVars

\* A per-city vector: base everywhere, except value at city a (none when a = 0).
Bump(n, base, a, value) == [h \in 1..n |-> IF h = a THEN value ELSE base]

\* A distance matrix: 1 everywhere, except 2 from city a to city b.
BumpMatrix(n, a, b) == [h \in 1..n |-> [j \in 1..n |-> IF h = a /\ j = b THEN 2 ELSE 1]]

----------------------------------------------------------------------------
(* The model the solvers work on *)

\* theta = np.repeat(10.0, num_cities), with theta[j] = 1 for city j when j > 0.
ThetaWith(n, j) == [h \in 1..n |-> IF h = j THEN 1 ELSE 10]

SolverIds == {1, 2}

\* Lengths of the vectors callers pass to system() and jacobian(): shorter than
\* the price block, two short of the layout, the layout's 4N-1, one too long.
XLens(n) == {n - 2, 4 * n - 3, 4 * n - 1, 4 * n}

NoGoods ==
    /\ num_cities = 0
    /\ price_level = <<>>
    /\ nominal_gdp = <<>>
    /\ nominal_wage = <<>>
    /\ number_firms = <<>>
    /\ elasticity_substitution = <<>>
    /\ economic_distance = <<>>
    /\ phi = 0
    /\ goods_residual = <<>>

FreshSolvers ==
    /\ constructed = [s \in SolverIds |-> FALSE]
    /\ numeric_system = [s \in SolverIds |-> None]
    /\ numeric_jacobian = [s \in SolverIds |-> None]
    /\ city = [s \in SolverIds |-> NoCity]
    /\ sysBuilds = [s \in SolverIds |-> 0]
    /\ jacBuilds = [s \in SolverIds |-> 0]
    /\ clears = [s \in SolverIds |-> 0]
    /\ calls = <<>>
    /\ root = Idle
    /\ result = NoResult
    /\ report = NoReport

\* One Solver over a model of N cities.
Init ==
    /\ N \in 2..MaxN
    /\ theta \in {ThetaWith(N, j) : j \in 0..N}
    /\ population = [h \in 1..N |-> h]
    /\ rootIters \in 1..MaxIter
    /\ rootConverges \in BOOLEAN
    /\ solvers = {1}
    /\ FreshSolvers
    /\ NoGoods

\* Two Solvers sharing one model.
InitShared ==
    /\ N = 2
    /\ theta = ThetaWith(N, 0)
    /\ population = [h \in 1..N |-> h]
    /\ rootIters = 2
    /\ rootConverges = TRUE
    /\ solvers = SolverIds
    /\ FreshSolvers
    /\ NoGoods

\* The symbols of model.py bound to positive values, theta[j] > 1 for every j.
InitGoods ==
    /\ num_cities \in 2..MaxN
    /\ price_level \in {Bump(num_cities, 1, a, 2) : a \in 0..num_cities}
    /\ nominal_gdp = [h \in 1..num_cities |-> h]
    /\ nominal_wage \in {Bump(num_cities, 1, a, 2) : a \in 0..num_cities}
    /\ number_firms \in {Bump(num_cities, 1, a, 2) : a \in 0..num_cities}
    /\ elasticity_substitution \in {Bump(num_cities, 2, a, 3) : a \in 0..num_cities}
    /\ economic_distance \in
          {BumpMatrix(num_cities, a, b) : a \in 0..num_cities, b \in 1..num_cities}
    /\ phi = 2
    /\ goods_residual = <<>>
    /\ N = 0
    /\ theta = <<>>
    /\ population = <<>>
    /\ rootIters = 0
    /\ rootConverges = FALSE
    /\ solvers = {}
    /\ FreshSolvers

Next ==
    \/ \E s \in solvers : Construct(s)
    \/ \E s \in solvers : ClearCache(s)
    \/ \E s \in solvers, len \in XLens(N) : System(s, XVec(len))
    \/ \E s \in solvers, len \in XLens(N) : Jacobian(s, XVec(len))
    \/ \E s \in solvers, with_jacobian \in BOOLEAN : SolveStart(s, with_jacobian)
    \/ RootIterate
    \/ SolveReturn
    \/ ReportResult

Spec == Init /\ [][Next]_vars

SpecShared == InitShared /\ [][Next]_vars

SpecGoods == InitGoods /\ [][EvalGoods]_vars

----------------------------------------------------------------------------
(* Properties *)

\* The blocks of the initial guess, written out from the model's population.
OnesBlock(n) == [i \in 1..n |-> <<"num", 1>>]
GdpBlock == [h \in 1..N |-> <<"gdp", population[h]>>]
WageBlock == [h \in 1..N |-> <<"wage", population[h]>>]
FirmsBlock == [h \in 1..N |-> <<"firms", population[h]>>]

\* x is a block of np ones followed by the Y0, W0 and M0 blocks.
GuessLayout(x, np) == x = OnesBlock(np) \o GdpBlock \o WageBlock \o FirmsBlock

AllCalls == {calls[i] : i \in 1..Len(calls)}

\* C1 as stated: the vector solve() hands to the root-finder as initial guess has
\* exactly 4N-3 entries, a block of ones followed by the Y0, W0 and M0 blocks.
GuessHas4NMinus3Entries ==
    root.pc = "root" =>
        /\ Len(root.x0) = 4 * N - 3
        /\ \E np \in 0..Len(root.x0) : GuessLayout(root.x0, np)

\* C1 as amended: the initial guess has exactly 4N-1 entries: N-1 ones (the P0
\* block) followed by the N-entry blocks Y0, W0 and M0.
GuessHas4NMinus1Entries ==
    root.pc = "root" =>
        /\ Len(root.x0) = 4 * N - 1
        /\ GuessLayout(root.x0, N - 1)

GuessTaken == root.pc = "root" /\ N > 2

\* C2: whatever vector X system() or jacobian() unpacks, dropping P[0] and
\* concatenating P[1..], Y, W, M gives X back; and the reporting code slices the
\* solution at the boundaries system() uses, so its four slices concatenate to
\* the solution.
UnpackRepackIdentity ==
    /\ \A c \in AllCalls : Tail(c.P) \o c.Y \o c.W \o c.M = c.X
    /\ report.printed =>
          /\ report.prices \o report.gdp \o report.wages \o report.firms = report.x
          /\ Len(report.prices) = Min(N - 1, Len(report.x))
          /\ Len(report.prices) + Len(report.gdp) = Min(2 * N - 1, Len(report.x))
          /\ Len(report.prices) + Len(report.gdp) + Len(report.wages)
                = Min(3 * N - 1, Len(report.x))

UnpackedDeclaredLength ==
    /\ report.printed
    /\ \E c \in AllCalls : Len(c.X) = 4 * N - 3 /\ c.fn = "system"

\* C3: in every call of the compiled residual or Jacobian function P[0] is 1 and
\* the rest of P is the first N-1 entries of X, in every iteration of the solver.
NumeraireNeverSolvedFor ==
    \A c \in AllCalls :
        /\ Len(c.P) >= 1
        /\ c.P[1] = <<"num", 1>>
        /\ Tail(c.P) = SubSeq(c.X, 1, Min(N - 1, Len(c.X)))

NumeraireKeptWhileIterating ==
    /\ root.pc = "root"
    /\ root.k = 2
    /\ Len(calls) = 2
    /\ calls[1].X[1] # <<"num", 1>>
    /\ calls[2].fn = "jacobian"

\* C4 as stated: per model, each compiled function is built at most once, and
\* again only after a _clear_cache: the builds made for the model never exceed
\* one more than the cache clears made.
SumOver(f) == f[1] + f[2]

BuiltOncePerModel ==
    /\ SumOver(sysBuilds) <= 1 + SumOver(clears)
    /\ SumOver(jacBuilds) <= 1 + SumOver(clears)

\* C4 as amended: per Solver instance, each compiled function is built at most
\* once, and again only after that solver's _clear_cache: a solver's builds never
\* exceed one more than its cache clears.
BuiltOncePerSolver ==
    \A s \in solvers :
        /\ sysBuilds[s] <= 1 + clears[s]
        /\ jacBuilds[s] <= 1 + clears[s]

RebuiltAfterClear ==
    \E s \in solvers :
        /\ clears[s] = 1
        /\ sysBuilds[s] = 2
        /\ jacBuilds[s] = 2
        /\ result.status = "returned"

\* C5: with theta[j] = 1 for some city j, no compiled function is ever built and
\* no root-finding attempt begins: the model is refused before.
ThetaOneRefused ==
    ThetaHasOne =>
        /\ root.pc = "idle"
        /\ result.status = "none"
        /\ \A s \in solvers : sysBuilds[s] = 0 /\ jacBuilds[s] = 0

\* C6: a vector whose length does not match N never reaches the compiled
\* function as P, Y, W, M blocks of wrong length.
WrongLengthNeverPassed ==
    \A c \in AllCalls : Len(c.P) = N /\ Len(c.Y) = N /\ Len(c.W) = N /\ Len(c.M) = N

FreshSolveStep ==
    /\ (root.pc = "idle" /\ root'.pc = "root") =>
          root'.x0 = OnesBlock(N - 1) \o GdpBlock \o WageBlock \o FirmsBlock
    /\ (/\ root.pc = "root"
        /\ root'.pc = "idle"
        /\ result.status = "returned"
        /\ result'.status = "returned"
        /\ result'.with_jacobian = result.with_jacobian) => result' = result

\* C8: every solve() starts the root-finder at the initial guess computed from
\* the model, and a solve() that follows an earlier one with the same arguments
\* returns the same result.
EachSolveFresh == [][FreshSolveStep]_vars

SecondSolveReturning ==
    /\ root.pc = "root"
    /\ root.k = rootIters
    /\ rootIters > 1
    /\ result.status = "returned"
    /\ result.with_jacobian = root.with_jacobian
    /\ result.x # root.x0

\* C9: once the goods-market residual of every city is evaluated, the residuals
\* sum to zero.
GoodsResidualsSumToZero ==
    Len(goods_residual) = num_cities => RSum(goods_residual) = <<0, 1>>

GoodsAllEvaluated ==
    /\ Len(goods_residual) = num_cities
    /\ num_cities > 2
    /\ \E h \in 1..num_cities : goods_residual[h] # <<0, 1>>

\* C10: when the root-finder evaluates system() and jacobian() at the initial
\* guess, each of P, Y, W, M has N entries and Y, W, M are the guess's Y0, W0 and
\* M0 blocks.
GuessUnpacksIntoBlocks ==
    \A c \in AllCalls :
        (\/ root.pc = "root" /\ c.X = root.x0
         \/ c.X = OnesBlock(N - 1) \o GdpBlock \o WageBlock \o FirmsBlock) =>
            /\ Len(c.P) = N /\ Len(c.Y) = N /\ Len(c.W) = N /\ Len(c.M) = N
            /\ c.P = OnesBlock(N)
            /\ c.Y = GdpBlock
            /\ c.W = WageBlock
            /\ c.M = FirmsBlock

GuessUnpacked ==
    /\ root.pc = "root"
    /\ Len(calls) = 2
    /\ calls[1].X = root.x0
    /\ calls[2].X = root.x0
    /\ calls[2].fn = "jacobian"
    /\ N > 2

====
